---- MODULE Spec2Model ----
(***************************************************************************)
(* Model of shai's interactive session controller (src/src/cli.rs) and of  *)
(* the streaming adapter that feeds it (src/src/openai.rs, src/src/lib.rs).*)
(*                                                                         *)
(* Texts are sequences of tokens: "a" is a word character, "NL" a newline, *)
(* "FENCE" three backticks.  The controller is one sequential process; pc  *)
(* is the place where it next blocks or acts.  The background request task *)
(* and the remote endpoint are the environment.                            *)
(***************************************************************************)
EXTENDS Naturals, Sequences, FiniteSets, TLC

\* ------------------------------------------------------------- bounds
\* frames the endpoint sends for one request, at most
MaxFrames == 2
\* length of the input field's text, at most
MaxInput == 1
\* main_response_size is capped here (the code lets it grow to 65535)
\* longest main response text, in tokens, the code-block specification draws
MaxText == 7
MaxSize == 4
\* longest seed text of the input field, in characters
MaxSeed == 3
\* most request tasks running detached at a time
MaxDetached == 1

\* ------------------------------------------------------------- inputs
InputChars == {"x"}
Fragments == {<<"a">>, <<"FENCE", "NL", "a", "NL", "FENCE">>}

\* key events the terminal can deliver
CharKeys == {<<"Char", c>> : c \in InputChars}
Keys ==
    {<<"CtrlC">>, <<"CtrlR">>, <<"CtrlA">>, <<"Enter">>, <<"CtrlE">>,
     <<"CtrlD">>, <<"CtrlU">>, <<"ShiftUp">>, <<"ShiftDown">>, <<"Tab">>,
     <<"Esc">>, <<"Backspace">>, <<"Left">>} \cup CharKeys

\* delta shapes of a streamed chunk, and the frames of the event stream
Frames ==
    {[kind |-> "chunk", delta |-> "content", content |-> f] : f \in Fragments}
    \cup {[kind |-> "chunk", delta |-> "role_content", content |-> f] : f \in Fragments}
    \cup {[kind |-> "chunk", delta |-> d, content |-> <<>>] : d \in {"role", "stop"}}
    \cup {[kind |-> k, delta |-> "none", content |-> <<>>] :
            k \in {"done", "bad_json", "empty_choices", "interrupted", "err_item"}}

\* ------------------------------------------------------------- state
VARIABLES
    args,                \* ShaiArgs: task mode; edit_file and write_stdout once run() has read them
    term,                \* terminal mode: raw mode, alternate screen
    layout,
    input,               \* tui_input::Input: value and cursor
    input_text,
    main_response,
    auxiliary_response,
    main_response_size,
    response_focus,
    pc,                  \* where the controller is
    request_type,        \* send_request's argument
    reqstate,            \* send_request's local RequestState
    request_task,        \* the spawned task's handle: none / running
    user_prompt,         \* send_request's local: the user message given to the task
    task_kind,           \* send_request's local task: the Task given to the spawned task
    write_mode,          \* mainloop's result: none / Yes / Raw / No / Err
    exit,                \* what the send_request call that returned last gave, until the
                         \* mainloop handles its next event
    file,                \* the edit file: written?, content
    stdout,              \* what run() echoed: printed?, content
    returned,            \* what run() / new() returned to cli::run
    drawn,               \* the layout, focus and slots the last draw() rendered
    yielded,             \* fragments the current request's stream has yielded
    done_seen,           \* the current request's stream has delivered [DONE]
    detached             \* request tasks still running whose handle was dropped

vars ==
    <<args, term, layout, input, input_text, main_response, auxiliary_response,
      main_response_size, response_focus, pc, request_type, reqstate,
      request_task, user_prompt, task_kind, write_mode, exit, file, stdout, returned,
      drawn, yielded, done_seen, detached>>

\* ------------------------------------------------------------- data
\* ShaiRequestProgress::next_state
next_state(p) ==
    CASE p = "None" -> "S0"
      [] p = "S3" -> "S0"
      [] p = "S0" -> "S1"
      [] p = "S1" -> "S2"
      [] p = "S2" -> "S3"

\* Response::default
DefaultResponse == [text |-> <<>>, scroll |-> 0, request_state |-> "None"]

\* nothing has been drawn
NotDrawn ==
    [layout |-> "none", response_focus |-> "none",
     main_response |-> DefaultResponse, auxiliary_response |-> DefaultResponse]

\* state() looking at the main slot's progress alone
derive_state_main_only(task, main, aux) ==
    IF main.request_state = "None"
    THEN IF task = "Ask"
         THEN IF main.text = <<>> THEN "Started"
              ELSE IF aux.text = <<>> THEN "CommandGenerated"
              ELSE "AuxExplanationGenerated"
         ELSE IF main.text = <<>> THEN "Started"
              ELSE "ExplanationGenerated"
    ELSE "Processing"

\* ShaiUI::state, as a function of the fields it reads
derive_state(task, main, aux) ==
    IF main.request_state = "None" /\ aux.request_state = "None"
    THEN IF task = "Ask"
         THEN IF main.text = <<>> THEN "Started"
              ELSE IF aux.text = <<>> THEN "CommandGenerated"
              ELSE "AuxExplanationGenerated"
         ELSE IF main.text = <<>> THEN "Started"
              ELSE "ExplanationGenerated"
    ELSE "Processing"

state == derive_state(args.task, main_response, auxiliary_response)

\* str::lines().count(): newline-terminated lines plus a last unterminated one
RECURSIVE CountNL(_)
CountNL(t) ==
    IF t = <<>> THEN 0
    ELSE (IF Head(t) = "NL" THEN 1 ELSE 0) + CountNL(Tail(t))

line_count(t) ==
    IF t = <<>> THEN 0
    ELSE CountNL(t) + (IF t[Len(t)] = "NL" THEN 0 ELSE 1)

RECURSIVE Concat(_)
Concat(ss) == IF ss = <<>> THEN <<>> ELSE Head(ss) \o Concat(Tail(ss))


\* ------------------------------------------------------------- code blocks
\* the regex (?s)```(?:\w+)?\n(.*?)\n``` tried at position i of text t:
\* an opening fence, the word characters after it, a newline, then the
\* shortest body that is followed by newline and fence
SkipWord(t, j) ==
    CHOOSE k \in j..(Len(t) + 1) :
        /\ \A m \in j..(k - 1) : t[m] = "a"
        /\ (k = Len(t) + 1 \/ t[k] # "a")

Closings(t, s) ==
    {e \in s..(Len(t) - 1) : t[e] = "NL" /\ t[e + 1] = "FENCE"}

MinOf(S) == CHOOSE x \in S : \A y \in S : x <= y

MatchAt(t, i) ==
    IF t[i] # "FENCE" THEN [ok |-> FALSE, s |-> 0, e |-> 0]
    ELSE LET j == SkipWord(t, i + 1)
         IN  IF j > Len(t) \/ t[j] # "NL" \/ Closings(t, j + 1) = {}
             THEN [ok |-> FALSE, s |-> 0, e |-> 0]
             ELSE [ok |-> TRUE, s |-> j + 1, e |-> MinOf(Closings(t, j + 1))]

RECURSIVE BlocksFrom(_, _)
BlocksFrom(t, i) ==
    IF i > Len(t) THEN <<>>
    ELSE LET m == MatchAt(t, i)
         IN  IF m.ok
             THEN <<SubSeq(t, m.s, m.e - 1)>> \o BlocksFrom(t, m.e + 2)
             ELSE BlocksFrom(t, i + 1)

extract_code_blocks(t) == BlocksFrom(t, 1)

\* code_blocks.join("\n")
RECURSIVE JoinNL(_)
JoinNL(bs) ==
    IF bs = <<>> THEN <<>>
    ELSE IF Len(bs) = 1 THEN bs[1]
    ELSE bs[1] \o <<"NL">> \o JoinNL(Tail(bs))

\* ------------------------------------------------------------- input field
\* tui_input's handling of a key event: the request it maps the key to,
\* applied to value and cursor
InsertAt(v, c, ch) == SubSeq(v, 1, c) \o <<ch>> \o SubSeq(v, c + 1, Len(v))

\* an input field that puts a typed character at the end of the text
handle_event_appends(inp, k) ==
    IF k[1] = "Char"
    THEN [value |-> Append(inp.value, k[2]), cursor |-> inp.cursor + 1]
    ELSE inp

handle_event(inp, k) ==
    CASE k[1] = "Char" ->
            [value |-> InsertAt(inp.value, inp.cursor, k[2]), cursor |-> inp.cursor + 1]
      [] k[1] = "Backspace" ->
            IF inp.cursor = 0 THEN inp
            ELSE [value |-> SubSeq(inp.value, 1, inp.cursor - 1)
                            \o SubSeq(inp.value, inp.cursor + 1, Len(inp.value)),
                  cursor |-> inp.cursor - 1]
      [] k[1] = "CtrlU" -> [value |-> <<>>, cursor |-> 0]
      [] k[1] = "CtrlA" -> [inp EXCEPT !.cursor = 0]
      [] k[1] = "CtrlE" -> [inp EXCEPT !.cursor = Len(inp.value)]
      [] k[1] = "Left" -> [inp EXCEPT !.cursor = IF @ = 0 THEN 0 ELSE @ - 1]
      [] OTHER -> inp

\* ------------------------------------------------------------- adapter
\* the closure send_streaming maps over the event stream: what one frame
\* becomes.  "panic" is expect / unwrap / index out of bounds; "err" is an
\* Err item of the Result-typed stream model_stream_request declares.
Decode(f) ==
    CASE f.kind = "interrupted" -> [t |-> "panic", s |-> <<>>]
      [] f.kind = "done" -> [t |-> "fragment", s |-> <<>>]
      [] f.kind = "bad_json" -> [t |-> "panic", s |-> <<>>]
      [] f.kind = "empty_choices" -> [t |-> "panic", s |-> <<>>]
      [] f.kind = "err_item" -> [t |-> "err", s |-> <<>>]
      [] f.kind = "chunk" ->
            IF f.delta = "content" THEN [t |-> "fragment", s |-> f.content]
            ELSE [t |-> "fragment", s |-> <<>>]

\* ------------------------------------------------------------- the slots
UI ==
    [layout |-> layout, response_focus |-> response_focus,
     main_response |-> main_response, auxiliary_response |-> auxiliary_response]

SetUI(u) ==
    /\ layout' = u.layout
    /\ response_focus' = u.response_focus
    /\ main_response' = u.main_response
    /\ auxiliary_response' = u.auxiliary_response

\* update_request_state advancing the indicator also when the request has
\* resolved
update_request_state_never_idle(u, rt, finished) ==
    IF rt = "Normal"
    THEN [u EXCEPT !.main_response.request_state = next_state(@)]
    ELSE [u EXCEPT !.auxiliary_response.request_state = next_state(@)]

update_request_state(u, rt, finished) ==
    IF finished
    THEN IF rt = "Normal"
         THEN [u EXCEPT !.main_response.request_state = "None"]
         ELSE [u EXCEPT !.auxiliary_response.request_state = "None"]
    ELSE IF rt = "Normal"
         THEN [u EXCEPT !.main_response.request_state = next_state(@)]
         ELSE [u EXCEPT !.auxiliary_response.request_state = next_state(@)]

\* clear_response emptying the texts but keeping the scroll offsets
clear_response_keep_scroll(u, rt) ==
    IF rt = "Normal"
    THEN [layout |-> "InputResponse", response_focus |-> "MainResponse",
          main_response |-> [DefaultResponse EXCEPT !.scroll = u.main_response.scroll],
          auxiliary_response |->
              [DefaultResponse EXCEPT !.scroll = u.auxiliary_response.scroll]]
    ELSE [u EXCEPT !.auxiliary_response =
              [DefaultResponse EXCEPT !.scroll = u.auxiliary_response.scroll]]

\* clear_response for the main slot leaving layout, focus and the auxiliary
\* slot as they are
clear_response_main_only(u, rt) ==
    IF rt = "Normal"
    THEN [u EXCEPT !.main_response = DefaultResponse]
    ELSE [u EXCEPT !.auxiliary_response = DefaultResponse]

clear_response(u, rt) ==
    IF rt = "Normal"
    THEN [layout |-> "InputResponse", response_focus |-> "MainResponse",
          main_response |-> DefaultResponse, auxiliary_response |-> DefaultResponse]
    ELSE [u EXCEPT !.auxiliary_response = DefaultResponse]

\* append_message_response putting the fragment in front of the text
append_message_response_front(u, response, rt) ==
    IF rt = "Normal"
    THEN [u EXCEPT !.main_response.text = response \o @]
    ELSE [u EXCEPT !.auxiliary_response.text = response \o @]

\* append_message_response putting every fragment in the main slot
append_message_response_to_main(u, response, rt) ==
    [u EXCEPT !.main_response.text = @ \o response]

append_message_response(u, response, rt) ==
    IF rt = "Normal"
    THEN [u EXCEPT !.main_response.text = @ \o response]
    ELSE [u EXCEPT !.auxiliary_response.text = @ \o response]

StateOf(u) == derive_state(args.task, u.main_response, u.auxiliary_response)

\* the derived state the last draw() rendered: draw begins with self.state()
shown == IF drawn = NotDrawn THEN "none" ELSE StateOf(drawn)

Slot(u, rt) == IF rt = "Normal" THEN u.main_response ELSE u.auxiliary_response


\* ------------------------------------------------------------- start
NoKey == <<"none">>

\* The state when cli::run has parsed the arguments.  The edit file is empty
\* or absent, so the input field starts empty.  args.edit_file and
\* args.write_stdout are read by run() alone, after the mainloop: they are
\* drawn when run() reads them.
Init ==
    /\ args \in [task : {"Ask", "Explain"}, edit_file : {"unread"}, write_stdout : {"unread"}]
    /\ term = [raw |-> FALSE, alt |-> FALSE]
    /\ layout = "InputResponse"
    /\ input = [value |-> <<>>, cursor |-> 0]
    /\ input_text = <<>>
    /\ main_response = DefaultResponse
    /\ auxiliary_response = DefaultResponse
    /\ main_response_size = 3
    /\ response_focus = "MainResponse"
    /\ pc = "new"
    /\ request_type = "Normal"
    /\ reqstate = "WaitRequest"
    /\ request_task = "none"
    /\ user_prompt = <<>>
    /\ task_kind = "none"
    /\ write_mode = "none"
    /\ exit = "none"
    /\ file = [written |-> FALSE, content |-> <<>>]
    /\ stdout = [printed |-> FALSE, content |-> <<>>]
    /\ returned = "none"
    /\ drawn = NotDrawn
    /\ yielded = <<>>
    /\ done_seen = FALSE
    /\ detached = 0

uiVars == <<layout, response_focus, main_response, auxiliary_response>>
inputVars == <<input, input_text>>
requestLocals ==
    <<request_type, reqstate, request_task, user_prompt, task_kind, yielded, done_seen>>
requestVars == <<requestLocals, detached>>
outVars == <<args, term, file, stdout, returned>>

\* mainloop returns Ok(wm) or Err to run(), which draws no more and leaves
\* the alternate screen
MainloopReturns(wm) ==
    /\ write_mode' = wm
    /\ pc' = "run"
    /\ drawn' = NotDrawn

\* top of mainloop's loop with the slots as u: self.draw()?, then the
\* controller blocks in event::read
MainloopTop(u, ok) ==
    IF ok
    THEN /\ drawn' = u
         /\ pc' = "mainloop_read"
         /\ write_mode' = write_mode
    ELSE MainloopReturns("Err")

\* ShaiUI::new: raw mode, then initialization (alternate screen, terminal);
\* run() then enters the mainloop
New ==
    /\ pc = "new"
    /\ \E outcome \in {"ok", "draw_failed", "enter_alternate_failed", "terminal_failed"} :
          CASE outcome \in {"ok", "draw_failed"} ->
                  /\ term' = [raw |-> TRUE, alt |-> TRUE]
                  /\ MainloopTop(UI, outcome = "ok")
                  /\ returned' = returned
            [] outcome = "enter_alternate_failed" ->
                  /\ term' = [raw |-> FALSE, alt |-> FALSE]
                  /\ pc' = "exited"
                  /\ returned' = "Err"
                  /\ UNCHANGED <<drawn, write_mode>>
            [] outcome = "terminal_failed" ->
                  /\ term' = [raw |-> FALSE, alt |-> TRUE]
                  /\ pc' = "exited"
                  /\ returned' = "Err"
                  /\ UNCHANGED <<drawn, write_mode>>
    /\ UNCHANGED <<args, uiVars, inputVars, main_response_size, requestVars,
                   exit, file, stdout>>

\* ------------------------------------------------------------- mainloop
\* crossterm::event::read()? fails
MainloopReadFails ==
    /\ pc = "mainloop_read"
    /\ MainloopReturns("Err")
    /\ UNCHANGED <<uiVars, inputVars, main_response_size, requestVars, outVars>>
    /\ exit' = "none"

\* an event that is no key event: the loop goes round
MainloopOtherEvent ==
    /\ pc = "mainloop_read"
    /\ \E ok \in BOOLEAN : MainloopTop(UI, ok)
    /\ UNCHANGED <<uiVars, inputVars, main_response_size, requestVars, outVars>>
    /\ exit' = "none"

\* mainloop's match with the accept arms unguarded
ArmOf_unguarded(k) ==
    CASE k = <<"CtrlC">> -> "exit"
      [] k = <<"CtrlR">> -> "raw"
      [] k = <<"CtrlA">> -> "yes"
      [] k = <<"Enter">> -> "enter"
      [] k = <<"CtrlE">> /\ state = "CommandGenerated" -> "explain"
      [] k \in {<<"CtrlD">>, <<"CtrlU">>}
            /\ state \in {"ExplanationGenerated", "AuxExplanationGenerated"} -> "scroll"
      [] k \in {<<"ShiftUp">>, <<"ShiftDown">>} /\ state = "AuxExplanationGenerated" -> "resize"
      [] k = <<"Tab">> /\ layout = "InputResponseExplanation" -> "tab"
      [] OTHER -> "input"

\* the arm of mainloop's match that key k takes in the current state
ArmOf(k) ==
    CASE k = <<"CtrlC">> -> "exit"
      [] k = <<"CtrlR">> /\ state \in {"CommandGenerated", "AuxExplanationGenerated"} -> "raw"
      [] k = <<"CtrlA">> /\ state \in {"CommandGenerated", "AuxExplanationGenerated"} -> "yes"
      [] k = <<"Enter">> -> "enter"
      [] k = <<"CtrlE">> /\ state = "CommandGenerated" -> "explain"
      [] k \in {<<"CtrlD">>, <<"CtrlU">>}
            /\ state \in {"ExplanationGenerated", "AuxExplanationGenerated"} -> "scroll"
      [] k \in {<<"ShiftUp">>, <<"ShiftDown">>} /\ state = "AuxExplanationGenerated" -> "resize"
      [] k = <<"Tab">> /\ layout = "InputResponseExplanation" -> "tab"
      [] OTHER -> "input"

\* the mainloop reads key k and takes arm
Reads(k, arm) ==
    /\ pc = "mainloop_read"
    /\ ArmOf(k) = arm

ForceExit(k) ==
    /\ Reads(k, "exit")
    /\ MainloopReturns("No")
    /\ UNCHANGED <<uiVars, inputVars, main_response_size, requestVars, outVars>>
    /\ exit' = "none"

AcceptRaw(k) ==
    /\ Reads(k, "raw")
    /\ MainloopReturns("Raw")
    /\ UNCHANGED <<uiVars, inputVars, main_response_size, requestVars, outVars>>
    /\ exit' = "none"

Accept(k) ==
    /\ Reads(k, "yes")
    /\ MainloopReturns("Yes")
    /\ UNCHANGED <<uiVars, inputVars, main_response_size, requestVars, outVars>>
    /\ exit' = "none"

\* send_request returning ret drops the task's handle without joining it.
\* Cancel in WaitRequest leaves a task that may still run; a task left by a
\* return that ends the session ends with the process.
dropped(ret) ==
    IF ret = "Cancel" /\ pc = "wait_poll" /\ detached < MaxDetached
    THEN {detached, detached + 1}
    ELSE {detached}

\* the mainloop treating RequestExit::Exit like Cancel: the loop goes round
SendRequestReturns_exit_ignored(u, ret, ok) ==
    /\ request_type' = "Normal"
    /\ reqstate' = "WaitRequest"
    /\ request_task' = "none"
    /\ user_prompt' = <<>>
    /\ task_kind' = "none"
    /\ yielded' = <<>>
    /\ done_seen' = FALSE
    /\ detached' \in dropped(ret)
    /\ IF ret \in {"Err_setup", "Err_stream", "Err_io"}
       THEN /\ MainloopReturns("Err")
            /\ exit' = ret
       ELSE /\ MainloopTop(u, TRUE)
            /\ exit' = ret

\* the mainloop treating RequestExit::Cancel like Exit: it returns No
SendRequestReturns_cancel_exits(u, ret, ok) ==
    /\ request_type' = "Normal"
    /\ reqstate' = "WaitRequest"
    /\ request_task' = "none"
    /\ user_prompt' = <<>>
    /\ task_kind' = "none"
    /\ yielded' = <<>>
    /\ done_seen' = FALSE
    /\ detached' \in dropped(ret)
    /\ IF ret \in {"Err_setup", "Err_stream", "Err_io"}
       THEN /\ MainloopReturns("Err")
            /\ exit' = ret
       ELSE IF ret \in {"Exit", "Cancel"}
       THEN /\ MainloopReturns("No")
            /\ exit' = ret
       ELSE /\ MainloopTop(u, ok)
            /\ exit' = ret

\* send_request returns ret to the mainloop arm that called it, with the
\* slots as u: an error is propagated by ?, Exit ends the mainloop, on
\* Cancel and Finished the loop goes round
SendRequestReturns(u, ret, ok) ==
    /\ request_type' = "Normal"
    /\ reqstate' = "WaitRequest"
    /\ request_task' = "none"
    /\ user_prompt' = <<>>
    /\ task_kind' = "none"
    /\ yielded' = <<>>
    /\ done_seen' = FALSE
    /\ detached' \in dropped(ret)
    /\ IF ret \in {"Err_setup", "Err_stream", "Err_io"}
       THEN /\ MainloopReturns("Err")
            /\ exit' = ret
       ELSE IF ret = "Exit"
       THEN /\ MainloopReturns("No")
            /\ exit' = ret
       ELSE /\ MainloopTop(u, ok)
            /\ exit' = ret

\* send_request asking for an explanation whatever the mode and the slot
task_of_explain(rt) == "Explain"

\* send_request's task: GenerateCommand for the main slot in Ask mode
task_of(rt) ==
    IF args.task = "Ask" /\ rt = "Normal" THEN "GenerateCommand" ELSE "Explain"

\* send_request taking the input field's value for either slot
prompt_of_input(rt, u) == input.value

\* send_request's user_prompt with the slots as u: the input field's value
\* for the main slot, the main response's text for the auxiliary slot
prompt_of(rt, u) ==
    IF rt = "Normal" THEN input.value ELSE u.main_response.text

\* entry of send_request for slot rt with the slots as u: the task is
\* spawned, reqstate is WaitRequest, and the loop draws for the first time
EnterSendRequest(rt, u) ==
    \E ok \in BOOLEAN :
        IF ok
        THEN /\ request_type' = rt
             /\ reqstate' = "WaitRequest"
             /\ request_task' = "running"
             /\ user_prompt' = prompt_of(rt, u)
             /\ task_kind' = task_of(rt)
             /\ yielded' = <<>>
             /\ done_seen' = FALSE
             /\ detached' = detached
             /\ drawn' = u
             /\ pc' = "wait_poll"
             /\ write_mode' = write_mode
             /\ exit' = "none"
        ELSE SendRequestReturns(u, "Err_io", FALSE)

Submit(k) ==
    /\ Reads(k, "enter")
    /\ EnterSendRequest("Normal", UI)
    /\ UNCHANGED <<uiVars, inputVars, main_response_size, outVars>>

Explain(k) ==
    /\ Reads(k, "explain")
    /\ LET u == [UI EXCEPT !.layout = "InputResponseExplanation",
                           !.response_focus = "AuxiliaryResponse"]
       IN  /\ SetUI(u)
           /\ EnterSendRequest("Auxiliary", u)
    /\ UNCHANGED <<inputVars, main_response_size, outVars>>

Min(a, b) == IF a < b THEN a ELSE b
Max(a, b) == IF a > b THEN a ELSE b
SatSub(a, b) == IF a > b THEN a - b ELSE 0

\* the scroll arm scrolling down without the clamp to the page
scroll_by_unclamped(r, k) ==
    LET page == line_count(r.text)
        half_page == Max(page \div 2, 1)
    IN  IF k = <<"CtrlD">>
        THEN [r EXCEPT !.scroll = r.scroll + half_page]
        ELSE [r EXCEPT !.scroll = SatSub(r.scroll, half_page)]

\* the scroll arm on the focused slot r: half a page up or down
scroll_by(r, k) ==
    LET page == line_count(r.text)
        half_page == Max(page \div 2, 1)
    IN  IF k = <<"CtrlD">>
        THEN [r EXCEPT !.scroll = Min(r.scroll + half_page, page)]
        ELSE [r EXCEPT !.scroll = SatSub(r.scroll, half_page)]

\* the scroll arm scrolling the main slot whatever the focus
scroll_main_always(u, k) == [u EXCEPT !.main_response = scroll_by(@, k)]

scroll(u, k) ==
    IF u.response_focus = "MainResponse"
    THEN [u EXCEPT !.main_response = scroll_by(@, k)]
    ELSE [u EXCEPT !.auxiliary_response = scroll_by(@, k)]

Scroll(k) ==
    /\ Reads(k, "scroll")
    /\ SetUI(scroll(UI, k))
    /\ \E ok \in BOOLEAN : MainloopTop(scroll(UI, k), ok)
    /\ UNCHANGED <<inputVars, main_response_size, requestVars, outVars>>
    /\ exit' = "none"

\* the resize arm shrinking without the floor
resize_no_floor(size, k) ==
    IF k = <<"ShiftUp">> THEN SatSub(size, 1) ELSE size + 1

\* the resize arm
resize(size, k) ==
    IF k = <<"ShiftUp">> THEN Max(SatSub(size, 1), 3) ELSE size + 1

\* u16::MAX: main_response_size and the scroll offsets are u16
U16Max == 65535

\* a + b on u16.  Past u16::MAX the build decides: a panic with overflow
\* checks (the dev profile), the sum modulo 2^16 without (the release profile)
add_u16(a, b) ==
    IF a + b <= U16Max
    THEN {[panicked |-> FALSE, value |-> a + b]}
    ELSE {[panicked |-> TRUE, value |-> a],
          [panicked |-> FALSE, value |-> (a + b) % (U16Max + 1)]}

\* the resize arm on the u16 field: `+= 1` may overflow, saturating_sub and
\* max cannot
resize_u16(size, k) ==
    IF k = <<"ShiftDown">>
    THEN add_u16(size, 1)
    ELSE {[panicked |-> FALSE, value |-> resize(size, k)]}

\* the mainloop reads a resize key: the arm, then the top of the loop; a
\* panic unwinds out of run()
ResizeArm(k) ==
    /\ Reads(k, "resize")
    /\ \E r \in resize_u16(main_response_size, k) :
          IF r.panicked
          THEN /\ pc' = "panicked"
               /\ UNCHANGED <<main_response_size, drawn, write_mode>>
          ELSE /\ main_response_size' = r.value
               /\ \E ok \in BOOLEAN : MainloopTop(UI, ok)
    /\ UNCHANGED <<uiVars, inputVars, requestVars, outVars>>
    /\ exit' = "none"

Resize(k) ==
    /\ k = <<"ShiftDown">> => main_response_size < MaxSize
    /\ ResizeArm(k)

\* the toggle-focus arm always focusing the auxiliary pane
toggle_focus_to_auxiliary(f) == "AuxiliaryResponse"

\* the toggle-focus arm
toggle_focus(f) == IF f = "MainResponse" THEN "AuxiliaryResponse" ELSE "MainResponse"

ToggleFocus(k) ==
    /\ Reads(k, "tab")
    /\ response_focus' = toggle_focus(response_focus)
    /\ \E ok \in BOOLEAN : MainloopTop([UI EXCEPT !.response_focus = toggle_focus(@)], ok)
    /\ UNCHANGED <<layout, main_response, auxiliary_response, inputVars,
                   main_response_size, requestVars, outVars>>
    /\ exit' = "none"

\* the catch-all arm: the key goes to the input field
EditInput(k) ==
    /\ Reads(k, "input")
    /\ k[1] = "Char" => Len(input.value) < MaxInput
    /\ input' = handle_event(input, k)
    /\ input_text' = handle_event(input, k).value
    /\ \E ok \in BOOLEAN : MainloopTop(UI, ok)
    /\ UNCHANGED <<uiVars, main_response_size, requestVars, outVars>>
    /\ exit' = "none"

\* one iteration of the mainloop on key k
MainloopKey(k) ==
    \/ ForceExit(k)
    \/ AcceptRaw(k)
    \/ Accept(k)
    \/ Submit(k)
    \/ Explain(k)
    \/ Scroll(k)
    \/ Resize(k)
    \/ ToggleFocus(k)
    \/ EditInput(k)

\* ------------------------------------------------------------- send_request
\* send_request rolling the slot back when the stream failed
Break_rollback(u, ret, ok) ==
    LET v == IF ret = "Err_stream" THEN clear_response(u, request_type) ELSE u
    IN  /\ SetUI(update_request_state(v, request_type, TRUE))
        /\ SendRequestReturns(update_request_state(v, request_type, TRUE), ret, ok)

\* break out of send_request's loop with the slots as u:
\* update_request_state(.., true), then ret
Break(u, ret, ok) ==
    /\ SetUI(update_request_state(u, request_type, TRUE))
    /\ SendRequestReturns(update_request_state(u, request_type, TRUE), ret, ok)

\* ? inside the loop leaves send_request at once, the slots as u
Leave(u, ret) ==
    /\ SetUI(u)
    /\ SendRequestReturns(u, ret, FALSE)

\* what a poll of the request loops gives: a key, or none within the interval
PollKeys ==
    {<<"Esc">>, <<"CtrlC">>, <<"CtrlA">>, <<"CtrlR">>, <<"CtrlE">>, <<"Tab">>,
     <<"Enter">>, <<"Char", "x">>, NoKey}

\* keys the request loops read and ignore, or no key within the interval
Ignored == PollKeys \ {<<"Esc">>, <<"CtrlC">>}

\* WaitRequest: poll or read fails
WaitPollFails ==
    /\ pc = "wait_poll"
    /\ Leave(UI, "Err_io")
    /\ UNCHANGED <<inputVars, main_response_size, outVars>>

\* WaitRequest, is_finished is false: the progress indicator advances and
\* the loop draws again
WaitTick(k) ==
    /\ pc = "wait_poll"
    /\ k \in Ignored
    /\ LET u == update_request_state(UI, request_type, FALSE)
       IN  \E ok \in BOOLEAN :
              IF ok
              THEN /\ SetUI(u)
                   /\ drawn' = u
                   /\ pc' = "wait_poll"
                   /\ UNCHANGED <<write_mode, exit, requestVars>>
              ELSE Leave(u, "Err_io")
    /\ UNCHANGED <<inputVars, main_response_size, outVars>>

\* the slots when the loop has seen is_finished: reqstate becomes Streaming,
\* clear_response, and the iteration ends with update_request_state(.., false)
finished_seen(u, rt) == update_request_state(clear_response(u, rt), rt, FALSE)

\* WaitRequest, is_finished is true and the task gives a stream: the slot is
\* cleared, the indicator advances, the loop draws, and the Streaming arm
\* awaits the task and starts to drain the stream
WaitFinished(k) ==
    /\ pc = "wait_poll"
    /\ k \in Ignored
    /\ LET u == finished_seen(UI, request_type)
       IN  \E ok \in BOOLEAN :
              IF ok
              THEN /\ SetUI(u)
                   /\ reqstate' = "Streaming"
                   /\ drawn' = u
                   /\ pc' = "stream_next"
                   /\ UNCHANGED <<write_mode, exit, request_type, request_task, user_prompt,
                               task_kind, yielded, done_seen, detached>>
              ELSE Leave(u, "Err_io")
    /\ UNCHANGED <<inputVars, main_response_size, outVars>>

\* WaitRequest, is_finished is true and the task ended with a setup error
\* (headers, send) or a panic (missing credential): the slot is cleared, the
\* indicator advances, the loop draws, and request_task.await? or map_err(..)?
\* leaves send_request
WaitSetupFailed(k) ==
    /\ pc = "wait_poll"
    /\ k \in Ignored
    /\ Leave(finished_seen(UI, request_type), "Err_setup")
    /\ UNCHANGED <<inputVars, main_response_size, outVars>>

\* WaitRequest: Esc is read within the poll interval
WaitCancel(k) ==
    /\ pc = "wait_poll"
    /\ k = <<"Esc">>
    /\ \E ok \in BOOLEAN : Break(UI, "Cancel", ok)
    /\ UNCHANGED <<inputVars, main_response_size, outVars>>

\* WaitRequest: Ctrl-C is read within the poll interval
WaitExit(k) ==
    /\ pc = "wait_poll"
    /\ k = <<"CtrlC">>
    /\ Break(UI, "Exit", FALSE)
    /\ UNCHANGED <<inputVars, main_response_size, outVars>>

\* one iteration of send_request's loop in WaitRequest, the poll giving k
WaitKey(k) ==
    \/ WaitTick(k)
    \/ WaitFinished(k)
    \/ WaitSetupFailed(k)
    \/ WaitCancel(k)
    \/ WaitExit(k)

\* ------------------------------------------------------------- stream_response
\* response_stream.next() is None: Ok(Finished)
StreamEnds ==
    /\ pc = "stream_next"
    /\ \E ok \in BOOLEAN : Break(UI, "Finished", ok)
    /\ UNCHANGED <<inputVars, main_response_size, outVars>>

\* the next frame f arrives and decodes to a fragment: append, draw
StreamFragment(f) ==
    /\ pc = "stream_next"
    /\ Len(yielded) < MaxFrames
    /\ Decode(f).t = "fragment"
    /\ LET u == append_message_response(UI, Decode(f).s, request_type)
       IN  \E ok \in BOOLEAN :
              IF ok
              THEN /\ SetUI(u)
                   /\ yielded' = Append(yielded, Decode(f).s)
                   /\ done_seen' = (done_seen \/ f.kind = "done")
                   /\ drawn' = u
                   /\ pc' = "stream_poll"
                   /\ UNCHANGED <<write_mode, exit, request_type, reqstate, request_task,
                               user_prompt, task_kind, detached>>
              ELSE Break(u, "Err_io", FALSE)
    /\ UNCHANGED <<inputVars, main_response_size, outVars>>

\* the next item is an Err: message? leaves stream_response
StreamError(f) ==
    /\ pc = "stream_next"
    /\ Len(yielded) < MaxFrames
    /\ Decode(f).t = "err"
    /\ Break(UI, "Err_stream", FALSE)
    /\ UNCHANGED <<inputVars, main_response_size, outVars>>

\* the closure panics on frame f while the controller polls the stream: the
\* process unwinds out of run()
StreamPanics(f) ==
    /\ pc = "stream_next"
    /\ Len(yielded) < MaxFrames
    /\ Decode(f).t = "panic"
    /\ pc' = "panicked"
    /\ UNCHANGED <<uiVars, inputVars, main_response_size, requestVars,
                   write_mode, exit, outVars, drawn>>

\* stream_response's poll or read fails
StreamPollFails ==
    /\ pc = "stream_poll"
    /\ Break(UI, "Err_io", FALSE)
    /\ UNCHANGED <<inputVars, main_response_size, outVars>>

StreamExit(k) ==
    /\ pc = "stream_poll"
    /\ k = <<"CtrlC">>
    /\ Break(UI, "Exit", FALSE)
    /\ UNCHANGED <<inputVars, main_response_size, outVars>>

StreamCancel(k) ==
    /\ pc = "stream_poll"
    /\ k = <<"Esc">>
    /\ \E ok \in BOOLEAN : Break(UI, "Cancel", ok)
    /\ UNCHANGED <<inputVars, main_response_size, outVars>>

\* no key, or a key the match ignores: the progress indicator advances
StreamTick(k) ==
    /\ pc = "stream_poll"
    /\ k \in Ignored
    /\ SetUI(update_request_state(UI, request_type, FALSE))
    /\ pc' = "stream_next"
    /\ UNCHANGED <<inputVars, main_response_size, requestVars,
                   write_mode, exit, outVars, drawn>>

\* stream_response after an appended fragment, the poll giving k
StreamKey(k) ==
    \/ StreamTick(k)
    \/ StreamExit(k)
    \/ StreamCancel(k)

\* ------------------------------------------------------------- detached tasks
\* a detached task's result appended to the main slot
DetachedTaskEnds_appends ==
    /\ detached > 0
    /\ pc \in {"mainloop_read", "wait_poll", "stream_next", "stream_poll"}
    /\ detached' = detached - 1
    /\ main_response' = [main_response EXCEPT !.text = @ \o <<"a">>]
    /\ UNCHANGED <<layout, response_focus, auxiliary_response, inputVars,
                   main_response_size, requestLocals, write_mode, exit, outVars,
                   drawn, pc>>

\* a task whose handle was dropped runs to its end: its future owns clones of
\* the model and the context and its own prompt, and its output is dropped
DetachedTaskEnds ==
    /\ detached > 0
    /\ pc \in {"mainloop_read", "wait_poll", "stream_next", "stream_poll"}
    /\ detached' = detached - 1
    /\ UNCHANGED <<uiVars, inputVars, main_response_size, requestLocals,
                   write_mode, exit, outVars, drawn, pc>>

\* ------------------------------------------------------------- run
\* what run() writes to the edit file for a WriteBuffer
written_content(wm, text) ==
    IF wm = "Yes"
    THEN IF extract_code_blocks(text) = <<>> THEN text
         ELSE JoinNL(extract_code_blocks(text))
    ELSE text

\* run() after the mainloop, with edit_file and write_stdout as the
\* arguments give them: restore the terminal (each step can fail, and ?
\* returns at once), write the edit file, echo.  cli::run then returns and the
\* ShaiUI is dropped.
Run ==
    /\ pc = "run"
    /\ pc' = "done"
    /\ \E edit_file \in {"some", "none"}, write_stdout \in {"true", "false"},
          restore \in {"ok", "disable_raw_failed", "leave_alternate_failed", "show_cursor_failed"} :
          /\ args' = [args EXCEPT !.edit_file = edit_file, !.write_stdout = write_stdout]
          /\ term' = CASE restore = "disable_raw_failed" -> term
                       [] restore = "leave_alternate_failed" -> [raw |-> FALSE, alt |-> TRUE]
                       [] OTHER -> [raw |-> FALSE, alt |-> FALSE]
          /\ IF restore # "ok"
                \/ (args.task = "Ask" /\ edit_file = "some" /\ write_mode = "Err")
             THEN /\ returned' = "Err"
                  /\ UNCHANGED <<file, stdout>>
             ELSE /\ returned' = "Ok"
                  /\ file' = IF args.task = "Ask" /\ edit_file = "some"
                                /\ write_mode \in {"Yes", "Raw"}
                             THEN [written |-> TRUE,
                                   content |-> written_content(write_mode, main_response.text)]
                             ELSE file
                  /\ stdout' = IF write_stdout = "true"
                               THEN [printed |-> TRUE, content |-> main_response.text]
                               ELSE stdout
    /\ SetUI([layout |-> "InputResponse", response_focus |-> "MainResponse",
              main_response |-> DefaultResponse, auxiliary_response |-> DefaultResponse])
    /\ input' = [value |-> <<>>, cursor |-> 0]
    /\ input_text' = <<>>
    /\ main_response_size' = 3
    /\ drawn' = NotDrawn
    /\ detached' = 0
    /\ UNCHANGED <<requestLocals, write_mode, exit>>

Next ==
    \/ New
    \/ MainloopReadFails
    \/ MainloopOtherEvent
    \/ \E k \in Keys : ForceExit(k)
    \/ \E k \in Keys : AcceptRaw(k)
    \/ \E k \in Keys : Accept(k)
    \/ \E k \in Keys : Submit(k)
    \/ \E k \in Keys : Explain(k)
    \/ \E k \in Keys : Scroll(k)
    \/ \E k \in Keys : Resize(k)
    \/ \E k \in Keys : ToggleFocus(k)
    \/ \E k \in Keys : EditInput(k)
    \/ WaitPollFails
    \/ \E k \in PollKeys : WaitTick(k)
    \/ \E k \in PollKeys : WaitFinished(k)
    \/ \E k \in PollKeys : WaitSetupFailed(k)
    \/ \E k \in PollKeys : WaitCancel(k)
    \/ \E k \in PollKeys : WaitExit(k)
    \/ StreamEnds
    \/ \E f \in Frames : StreamFragment(f)
    \/ \E f \in Frames : StreamError(f)
    \/ \E f \in Frames : StreamPanics(f)
    \/ StreamPollFails
    \/ \E k \in PollKeys : StreamTick(k)
    \/ \E k \in PollKeys : StreamExit(k)
    \/ \E k \in PollKeys : StreamCancel(k)
    \/ DetachedTaskEnds
    \/ Run

Spec == Init /\ [][Next]_vars

\* ------------------------------------------------------------- the input field from any seed
\* the seed is the trimmed content of the edit file, if it can be read
SeedChars == {"x", "y"}
Seeds == UNION {[1..n -> SeedChars] : n \in 0..MaxSeed}

\* the state when cli::run has parsed the arguments and initialization will
\* seed the input field with s, the cursor at its end
InputInit ==
    /\ args \in [task : {"Ask", "Explain"}, edit_file : {"unread"}, write_stdout : {"unread"}]
    /\ term = [raw |-> FALSE, alt |-> FALSE]
    /\ layout = "InputResponse"
    /\ \E s \in Seeds :
          /\ input = [value |-> s, cursor |-> Len(s)]
          /\ input_text = s
    /\ main_response = DefaultResponse
    /\ auxiliary_response = DefaultResponse
    /\ main_response_size = 3
    /\ response_focus = "MainResponse"
    /\ pc = "new"
    /\ request_type = "Normal"
    /\ reqstate = "WaitRequest"
    /\ request_task = "none"
    /\ user_prompt = <<>>
    /\ task_kind = "none"
    /\ write_mode = "none"
    /\ exit = "none"
    /\ file = [written |-> FALSE, content |-> <<>>]
    /\ stdout = [printed |-> FALSE, content |-> <<>>]
    /\ returned = "none"
    /\ drawn = NotDrawn
    /\ yielded = <<>>
    /\ done_seen = FALSE
    /\ detached = 0

\* the mainloop on events that are no submit, accept or force-exit key
InputNext ==
    \/ New
    \/ MainloopOtherEvent
    \/ \E k \in Keys : EditInput(k)

InputSpec == InputInit /\ [][InputNext]_vars

\* ------------------------------------------------------------- the main pane at any size
\* the session in shai ask with a command and its explanation shown, the
\* mainloop waiting for a key, after any number of Shift-Down presses
SizeInit ==
    /\ args = [task |-> "Ask", edit_file |-> "unread", write_stdout |-> "unread"]
    /\ term = [raw |-> TRUE, alt |-> TRUE]
    /\ layout = "InputResponseExplanation"
    /\ input = [value |-> <<>>, cursor |-> 0]
    /\ input_text = <<>>
    /\ main_response = [DefaultResponse EXCEPT !.text = <<"a">>]
    /\ auxiliary_response = [DefaultResponse EXCEPT !.text = <<"a">>]
    /\ main_response_size \in 3..U16Max
    /\ response_focus = "MainResponse"
    /\ pc = "mainloop_read"
    /\ request_type = "Normal"
    /\ reqstate = "WaitRequest"
    /\ request_task = "none"
    /\ user_prompt = <<>>
    /\ task_kind = "none"
    /\ write_mode = "none"
    /\ exit = "none"
    /\ file = [written |-> FALSE, content |-> <<>>]
    /\ stdout = [printed |-> FALSE, content |-> <<>>]
    /\ returned = "none"
    /\ drawn = UI
    /\ yielded = <<>>
    /\ done_seen = FALSE
    /\ detached = 0

\* the mainloop on resize and scroll keys, the size bounded by its type alone
SizeNext ==
    \/ \E k \in {<<"ShiftUp">>, <<"ShiftDown">>} : ResizeArm(k)
    \/ \E k \in {<<"CtrlD">>, <<"CtrlU">>} : Scroll(k)

SizeSpec == SizeInit /\ [][SizeNext]_vars

\* a response text is a sequence of tokens: a word character, a newline, a
\* run of three backticks
TextTokens == {"a", "NL", "FENCE"}
Texts == UNION {[1..n -> TextTokens] : n \in 1..MaxText}

\* the session at the end of the mainloop in shai ask: any text in the main
\* slot, accepted with Ctrl-A or Ctrl-R
BlocksInit ==
    /\ args = [task |-> "Ask", edit_file |-> "unread", write_stdout |-> "unread"]
    /\ term = [raw |-> TRUE, alt |-> TRUE]
    /\ layout = "InputResponse"
    /\ input = [value |-> <<>>, cursor |-> 0]
    /\ input_text = <<>>
    /\ \E t \in Texts : main_response = [DefaultResponse EXCEPT !.text = t]
    /\ auxiliary_response = DefaultResponse
    /\ main_response_size = 3
    /\ response_focus = "MainResponse"
    /\ pc = "run"
    /\ request_type = "Normal"
    /\ reqstate = "WaitRequest"
    /\ request_task = "none"
    /\ user_prompt = <<>>
    /\ task_kind = "none"
    /\ write_mode \in {"Yes", "Raw"}
    /\ exit = "none"
    /\ file = [written |-> FALSE, content |-> <<>>]
    /\ stdout = [printed |-> FALSE, content |-> <<>>]
    /\ returned = "none"
    /\ drawn = NotDrawn
    /\ yielded = <<>>
    /\ done_seen = FALSE
    /\ detached = 0

\* run() on that session: the text's code blocks are extracted and written
BlocksSpec == BlocksInit /\ [][Run]_vars

\* ------------------------------------------------------------- claims
\* the slot a request of type rt fills, after the step
SlotNext(rt) == IF rt = "Normal" THEN main_response' ELSE auxiliary_response'

InFlight == main_response.request_state # "None" \/ auxiliary_response.request_state # "None"

\* the table of derived states
StateTable(task, main_empty, aux_empty, in_flight) ==
    CASE in_flight -> "Processing"
      [] ~in_flight /\ task = "Ask" /\ main_empty -> "Started"
      [] ~in_flight /\ task = "Ask" /\ ~main_empty /\ aux_empty -> "CommandGenerated"
      [] ~in_flight /\ task = "Ask" /\ ~main_empty /\ ~aux_empty -> "AuxExplanationGenerated"
      [] ~in_flight /\ task = "Explain" /\ main_empty -> "Started"
      [] ~in_flight /\ task = "Explain" /\ ~main_empty -> "ExplanationGenerated"

\* C1: in every reachable state the derived state is the table's value for
\* (task mode, main text empty?, auxiliary text empty?, a slot in flight?):
\* Processing when a slot is in flight whatever the texts, else by mode and
\* emptiness; and what the mainloop rendered before it reads a key is that
\* value
C1_StateIsDerived ==
    /\ state = StateTable(args.task, main_response.text = <<>>,
                          auxiliary_response.text = <<>>, InFlight)
    /\ pc = "mainloop_read" =>
          shown = StateTable(args.task, main_response.text = <<>>,
                             auxiliary_response.text = <<>>, InFlight)

\* C1 witness: the auxiliary slot is in flight over two non-empty texts, and
\* the render shows Processing
C1_Witness ==
    /\ pc = "stream_poll"
    /\ request_type = "Auxiliary"
    /\ main_response.text # <<>>
    /\ auxiliary_response.text # <<>>
    /\ auxiliary_response.request_state # "None"
    /\ main_response.request_state = "None"
    /\ state = "Processing"

\* C2 as claimed: while a request is outstanding (send_request entered and not
\* yet resolved) every render, the first included, shows Processing
C2_EveryRenderProcessing ==
    pc \in {"wait_poll", "stream_next", "stream_poll"} => shown = "Processing"

\* C3 as claimed: Esc while send_request still waits leaves the requested
\* slot's text empty, also when the slot held an earlier response
C3_CancelWhileWaitingClears ==
    [][(\E k \in PollKeys : WaitCancel(k)) => SlotNext(request_type).text = <<>>]_vars

\* C4: when a request resolves to Finished, the requested slot's text is the
\* concatenation, in yield order, of the fragments that request yielded, and
\* the slot's progress indicator is idle
C4_FinishedTextIsConcatenation ==
    [][StreamEnds =>
          /\ SlotNext(request_type).text = Concat(yielded)
          /\ SlotNext(request_type).request_state = "None"]_vars

\* C4 witness: a request of the main slot has yielded two different non-empty
\* fragments, the slot holds both in yield order, and the stream can end
C4_Witness ==
    /\ pc = "stream_next"
    /\ request_type = "Normal"
    /\ Len(yielded) = 2
    /\ yielded[1] = <<"a">>
    /\ yielded[2] = <<"FENCE", "NL", "a", "NL", "FENCE">>
    /\ main_response.text = <<"a", "FENCE", "NL", "a", "NL", "FENCE">>

\* C5: when the stream yields an error, the requested slot's text stays the
\* concatenation of the fragments yielded before it, and send_request returns
\* the error: the mainloop ends with it, the controller has not panicked
C5_StreamErrorKeepsPartial ==
    [][(\E f \in Frames : StreamError(f)) =>
          /\ SlotNext(request_type).text = Concat(yielded)
          /\ pc' = "run"
          /\ write_mode' = "Err"
          /\ exit' = "Err_stream"]_vars

\* C5 witness: the mainloop ended on a stream error with a partial response
\* in the main slot
C5_Witness ==
    /\ pc = "run"
    /\ exit = "Err_stream"
    /\ main_response.text = <<"a">>

\* C6 as claimed: a request that fails (setup error or mid-stream error) does
\* not end the session: control is back in the mainloop, reading keys
C6_FailedRequestKeepsSession ==
    [][((\E k \in PollKeys : WaitSetupFailed(k)) \/ (\E f \in Frames : StreamError(f)))
          => pc' = "mainloop_read"]_vars

\* C7 as claimed: when request setup fails the requested slot keeps the text
\* and scroll offset, and the session the layout and focus, they had when the
\* request was started
C7_SetupFailureKeepsSlot ==
    [][(\E k \in PollKeys : WaitSetupFailed(k)) =>
          /\ SlotNext(request_type).text = Slot(UI, request_type).text
          /\ SlotNext(request_type).scroll = Slot(UI, request_type).scroll
          /\ layout' = layout
          /\ response_focus' = response_focus]_vars

\* C8 as claimed: however the session ends once raw mode was entered, the
\* terminal is out of raw mode and out of the alternate screen
C8_TerminalRestored ==
    pc \in {"done", "exited", "panicked"} => term = [raw |-> FALSE, alt |-> FALSE]

AcceptStates == {"CommandGenerated", "AuxExplanationGenerated"}
AcceptKeys == {<<"CtrlA">>, <<"CtrlR">>}

\* a step in which the controller reads key k, in the mainloop or in a
\* request loop
KeyStep(k) == MainloopKey(k) \/ WaitKey(k) \/ StreamKey(k)

\* C9: the mainloop's result becomes Yes only by Ctrl-A and Raw only by Ctrl-R
\* read in the mainloop in derived state CommandGenerated or
\* AuxExplanationGenerated; read in any other state these keys give no write
\* disposition, and the session goes on unless a draw or the request fails in
\* that step
C9_AcceptOnlyWhenGenerated ==
    [][/\ (write_mode' = "Yes" /\ write_mode # "Yes")
             => (MainloopKey(<<"CtrlA">>) /\ state \in AcceptStates)
       /\ (write_mode' = "Raw" /\ write_mode # "Raw")
             => (MainloopKey(<<"CtrlR">>) /\ state \in AcceptStates)
       /\ \A k \in AcceptKeys :
             (KeyStep(k) /\ state \notin AcceptStates)
                => /\ write_mode' \in {"none", "Err"}
                   /\ write_mode' = "none" => pc' \in {"mainloop_read", "wait_poll", "stream_next"}
      ]_vars

\* C9 witness: Ctrl-A was read with a command and its explanation on screen,
\* and the mainloop returned Yes
C9_Witness ==
    /\ pc = "run"
    /\ write_mode = "Yes"
    /\ state = "AuxExplanationGenerated"

\* C10: Ctrl-C read in the mainloop, while waiting for a request, or while
\* streaming ends the mainloop with No; run() writes nothing to the edit file
\* then
C10_ForceExitDiscards ==
    [][/\ KeyStep(<<"CtrlC">>) => (pc' = "run" /\ write_mode' = "No")
       /\ (Run /\ write_mode = "No") => (file' = file /\ ~file'.written)
      ]_vars

\* C10 witness: Ctrl-C read during a request ended the session in Ask mode
\* with an edit file given, and nothing was written to it
C10_Witness ==
    /\ pc = "done"
    /\ exit = "Exit"
    /\ write_mode = "No"
    /\ args.task = "Ask"
    /\ args.edit_file = "some"
    /\ returned = "Ok"
    /\ ~file.written

\* C11: Esc read while a request is outstanding makes send_request return
\* Cancel: the slot's indicator is idle, the mainloop goes on and its result
\* stays unset (unless the next draw fails); Esc read by the mainloop changes
\* neither slot, the layout, the focus, the pane size nor the input field
C11_CancelOnlyCancels ==
    [][/\ KeyStep(<<"Esc">>) =>
             /\ write_mode' \in {"none", "Err"}
             /\ write_mode' = "none" => pc' = "mainloop_read"
       /\ (WaitCancel(<<"Esc">>) \/ StreamCancel(<<"Esc">>)) =>
             /\ exit' = "Cancel"
             /\ request_task' = "none"
             /\ SlotNext(request_type).request_state = "None"
       /\ MainloopKey(<<"Esc">>) =>
             UNCHANGED <<uiVars, main_response_size, inputVars, requestVars>>
      ]_vars

\* C11 witness: a request was cancelled while streaming; the partial text is
\* in the main slot and the mainloop waits for the next key
C11_Witness ==
    /\ pc = "mainloop_read"
    /\ exit = "Cancel"
    /\ write_mode = "none"
    /\ main_response.text # <<>>
    /\ main_response.request_state = "None"

\* a step in which send_request spawns a task for slot rt and goes on to wait
Starts(rt) ==
    request_task = "none" /\ request_task' = "running" /\ request_type' = rt

\* C12: an auxiliary request is started only by Ctrl-E read in the mainloop
\* in derived state CommandGenerated (Ask mode, main text non-empty, auxiliary
\* text empty, nothing in flight); it gets the main response's text as the
\* user message and the layout shows both panes; Ctrl-E read in any other
\* state starts no request
C12_ExplainOnlyFromCommandGenerated ==
    [][/\ (Starts("Auxiliary") \/ \E k \in Keys : Explain(k)) =>
             /\ Explain(<<"CtrlE">>)
             /\ state = "CommandGenerated"
             /\ args.task = "Ask"
             /\ main_response.text # <<>>
             /\ auxiliary_response.text = <<>>
             /\ ~InFlight
             /\ layout' = "InputResponseExplanation"
       /\ Starts("Auxiliary") => user_prompt' = main_response.text
       /\ (KeyStep(<<"CtrlE">>) /\ state # "CommandGenerated") =>
             /\ ~Starts("Auxiliary")
             /\ ~Starts("Normal")
      ]_vars

\* C12 witness: an explanation request is outstanding, its user message is
\* the command in the main slot, and both panes are laid out
C12_Witness ==
    /\ pc = "wait_poll"
    /\ request_type = "Auxiliary"
    /\ request_task = "running"
    /\ user_prompt = <<"a">>
    /\ main_response.text = <<"a">>
    /\ input.value = <<>>
    /\ layout = "InputResponseExplanation"

\* C13 as claimed: a key that matches no binding of the current state (here a
\* character key) is applied to the input field as a text edit in every
\* state, also when it is read while a request is waiting or streaming
C13_UnboundKeyEditsInput ==
    [][\A k \in CharKeys :
          KeyStep(k) => (input' = handle_event(input, k) /\ input_text' = input'.value)]_vars

ScrollKeys == {<<"CtrlD">>, <<"CtrlU">>}

\* the focused slot, before and after the step
Focused == IF response_focus = "MainResponse" THEN main_response ELSE auxiliary_response
FocusedNext == IF response_focus = "MainResponse" THEN main_response' ELSE auxiliary_response'
UnfocusedUnchanged ==
    IF response_focus = "MainResponse"
    THEN auxiliary_response' = auxiliary_response
    ELSE main_response' = main_response

\* C14 as claimed: a scroll key never leaves the scrolled slot's offset above
\* max(1, line_count - 1)
C14_ScrollBelowLastLine ==
    [][\A k \in ScrollKeys :
          Scroll(k) => FocusedNext.scroll <= Max(1, SatSub(line_count(Focused.text), 1))]_vars

\* C14 as amended: a scroll key never leaves the scrolled slot's offset above
\* line_count nor below 0
C14_ScrollWithinLineCount ==
    [][\A k \in ScrollKeys :
          Scroll(k) => FocusedNext.scroll \in 0..line_count(Focused.text)]_vars

\* C14 witness: the main slot is scrolled to line_count, above
\* max(1, line_count - 1)
C14_Witness ==
    /\ pc = "mainloop_read"
    /\ line_count(main_response.text) = 3
    /\ main_response.scroll = 3

\* C15: in every reachable state each slot's scroll offset lies in
\* [0, line_count] of that slot's current text
C15_ScrollInRange ==
    /\ main_response.scroll \in 0..line_count(main_response.text)
    /\ auxiliary_response.scroll \in 0..line_count(auxiliary_response.text)

\* C15 witness: both slots hold a scrolled text
C15_Witness ==
    /\ pc = "mainloop_read"
    /\ main_response.scroll > 0
    /\ auxiliary_response.scroll > 0
    /\ auxiliary_response.scroll = line_count(auxiliary_response.text)

\* C16: a scroll key read by the mainloop in ExplanationGenerated or
\* AuxExplanationGenerated moves the focused slot's offset by half its line
\* count (at least 1), kept within [0, line_count], and changes nothing else
\* of the slots, the layout, the focus or the pane size; read in any other
\* state it changes no slot
C16_ScrollOnlyFocusedPane ==
    [][\A k \in ScrollKeys :
          MainloopKey(k) =>
             IF state \in {"ExplanationGenerated", "AuxExplanationGenerated"}
             THEN LET lines == line_count(Focused.text)
                      half == IF lines \div 2 >= 1 THEN lines \div 2 ELSE 1
                      down == IF Focused.scroll + half <= lines
                              THEN Focused.scroll + half ELSE lines
                      up == IF Focused.scroll >= half THEN Focused.scroll - half ELSE 0
                  IN  /\ FocusedNext.scroll = IF k = <<"CtrlD">> THEN down ELSE up
                      /\ FocusedNext.text = Focused.text
                      /\ FocusedNext.request_state = Focused.request_state
                      /\ UnfocusedUnchanged
                      /\ UNCHANGED <<layout, response_focus, main_response_size>>
             ELSE UNCHANGED <<main_response, auxiliary_response, layout,
                              response_focus, main_response_size>>
      ]_vars

\* C16 witness: the auxiliary pane has the focus and is scrolled, the main
\* pane is not
C16_Witness ==
    /\ pc = "mainloop_read"
    /\ response_focus = "AuxiliaryResponse"
    /\ auxiliary_response.scroll > 0
    /\ main_response.scroll = 0
    /\ line_count(main_response.text) > 1

ResizeKeys == {<<"ShiftUp">>, <<"ShiftDown">>}

C19_EditFileWritten ==
    [][Run =>
          LET text == main_response.text
              blocks == extract_code_blocks(text)
              due == /\ args.task = "Ask"
                     /\ args'.edit_file = "some"
                     /\ write_mode \in {"Yes", "Raw"}
          IN  /\ file'.written <=> due
              /\ due => file'.content =
                           IF write_mode = "Raw" \/ blocks = <<>> THEN text
                           ELSE JoinNL(blocks)
      ]_vars

\* the fences that can close a block whose body starts at s: a fence at the
\* start of a line
ClosingFences(t, s) ==
    {c \in s..Len(t) : t[c] = "FENCE" /\ t[c - 1] = "NL"}

\* the fenced block opening at position i of t: a fence, an optional tag and
\* the end of the line; its body runs to the line before the next closing fence
FencedAt(t, i) ==
    IF t[i] # "FENCE" THEN [ok |-> FALSE, s |-> 0, c |-> 0]
    ELSE LET j == SkipWord(t, i + 1)
         IN  IF j > Len(t) \/ t[j] # "NL" \/ ClosingFences(t, j + 1) = {}
             THEN [ok |-> FALSE, s |-> 0, c |-> 0]
             ELSE [ok |-> TRUE, s |-> j + 1, c |-> MinOf(ClosingFences(t, j + 1))]

RECURSIVE FencedFrom(_, _)
FencedFrom(t, i) ==
    IF i > Len(t) THEN <<>>
    ELSE LET m == FencedAt(t, i)
         IN  IF m.ok
             THEN <<IF m.c = m.s THEN <<>> ELSE SubSeq(t, m.s, m.c - 2)>>
                  \o FencedFrom(t, m.c + 1)
             ELSE FencedFrom(t, i + 1)

\* the bodies of the fenced blocks of t in order of appearance, fence lines
\* and the newline before the closing fence left out
fenced_bodies(t) == FencedFrom(t, 1)

\* C20 as claimed: for every response text extract_code_blocks gives, in
\* order, the body of each fenced block, from the end of the opening fence
\* line (tag or no tag) to the next closing fence, and the empty list for a
\* text without a fence
C20_BlocksAreFencedBodies ==
    pc = "run" =>
        /\ extract_code_blocks(main_response.text) = fenced_bodies(main_response.text)
        /\ (\A i \in 1..Len(main_response.text) : main_response.text[i] # "FENCE")
              => extract_code_blocks(main_response.text) = <<>>

\* the text the delta of chunk frame f carries in a content field
content_of(f) ==
    IF f.delta \in {"content", "role_content"} THEN f.content ELSE <<>>

\* C21 as claimed: a chunk frame whose delta has a content field, with or
\* without a role field beside it, yields exactly that content as the
\* fragment; a role-only delta and an empty stop delta yield the empty text
C21_ContentIsYielded ==
    [][\A f \in Frames :
          (f.kind = "chunk" /\ StreamFragment(f) /\ pc' = "stream_poll") =>
             yielded' = Append(yielded, content_of(f))
      ]_vars

\* C22 as claimed: the frame [DONE] ends the fragment sequence at that point
\* and no fragment is emitted for it: the step that takes it leaves the
\* streaming loop, and once it has arrived no frame of that stream is taken
C22_DoneEndsStream ==
    [][/\ \A f \in Frames :
             (f.kind = "done" /\ StreamFragment(f)) =>
                pc' \notin {"stream_poll", "stream_next"}
       /\ done_seen =>
             ~ \E f \in Frames : StreamFragment(f) \/ StreamError(f) \/ StreamPanics(f)
      ]_vars

\* frames that are a failure of the stream
FailureFrames ==
    {f \in Frames : f.kind \in {"interrupted", "bad_json", "empty_choices", "err_item"}}

\* C23 as claimed: a failure while streaming (interruption, undecodable or
\* ill-shaped payload, empty choices list) reaches the caller as an error
\* value: the step that takes it makes send_request return the stream's error
\* to run(), and the process is not aborted
C23_FailuresAreErrorValues ==
    [][\A f \in FailureFrames :
          (StreamFragment(f) \/ StreamError(f) \/ StreamPanics(f)) =>
             /\ pc' = "run"
             /\ exit' = "Err_stream"
      ]_vars

RequestPcs == {"wait_poll", "stream_next", "stream_poll"}

OneInFlight(main, aux) ==
    main.request_state = "None" \/ aux.request_state = "None"

\* C24: before and after every step at most one slot is in flight; the
\* controller holds a request handle only inside send_request (or when the
\* process was aborted there); a request is started only from the mainloop's
\* key read with no handle held and both slots idle, and while a request is
\* outstanding its slot does not change: no request starts before the last
\* send_request has resolved, an auxiliary one never while the main slot
\* streams
C24_OneRequestAtATime ==
    [][/\ OneInFlight(main_response, auxiliary_response)
       /\ OneInFlight(main_response', auxiliary_response')
       /\ request_task' # "none" => pc' \in RequestPcs \cup {"panicked"}
       /\ \A rt \in {"Normal", "Auxiliary"} :
             Starts(rt) =>
                /\ pc = "mainloop_read"
                /\ ~InFlight
                /\ pc' = "wait_poll"
       /\ (pc \in RequestPcs /\ pc' \in RequestPcs) =>
             /\ request_type' = request_type
             /\ request_task' # "none"
             /\ request_task # "none"
       /\ pc \in RequestPcs => Slot(UI, IF request_type = "Normal" THEN "Auxiliary" ELSE "Normal").request_state = "None"
      ]_vars

\* C24 witness: an auxiliary request is streaming while the main slot is idle
\* and holds the generated command
C24_Witness ==
    /\ pc = "stream_poll"
    /\ request_type = "Auxiliary"
    /\ auxiliary_response.request_state # "None"
    /\ main_response.request_state = "None"
    /\ main_response.text # <<>>

\* C25: Esc read in the waiting phase makes send_request return at once, the
\* task not joined (it may go on running, detached); a detached task coming
\* to its end changes nothing of the session; and while a detached task runs
\* a slot's text changes only by being emptied or by the controller appending
\* a fragment of the current request's own stream to that request's slot
C25_CancelledTaskChangesNothing ==
    [][/\ \A k \in PollKeys :
             WaitCancel(k) =>
                /\ request_task' = "none"
                /\ pc' \in {"mainloop_read", "run"}
                /\ detached' >= detached
       /\ (detached' < detached /\ pc = pc') =>
             UNCHANGED <<uiVars, inputVars, main_response_size, requestLocals,
                         write_mode, exit, outVars, drawn>>
       /\ \A rt \in {"Normal", "Auxiliary"} :
             (detached > 0 /\ SlotNext(rt).text # Slot(UI, rt).text) =>
                \/ SlotNext(rt).text = <<>>
                \/ /\ pc = "stream_next"
                   /\ rt = request_type
                   /\ \E f \in Frames :
                         /\ Decode(f).t = "fragment"
                         /\ SlotNext(rt).text = Slot(UI, rt).text \o Decode(f).s
                   /\ \A other \in {"Normal", "Auxiliary"} \ {rt} :
                         SlotNext(other).text = Slot(UI, other).text
      ]_vars

\* C25 witness: in shai explain a request was cancelled while waiting, its
\* task still runs, and a new request for the same slot has streamed a
\* fragment
C25_Witness ==
    /\ args.task = "Explain"
    /\ detached = 1
    /\ pc = "stream_poll"
    /\ request_type = "Normal"
    /\ main_response.text = <<"a">>

\* C26 as claimed: wherever the controller stands while a request is
\* outstanding, its next step can be to take a cancel or force-exit key, with
\* no item from the network needed first
C26_KeyboardAlwaysPolled ==
    pc \in RequestPcs =>
        /\ ENABLED (WaitCancel(<<"Esc">>) \/ StreamCancel(<<"Esc">>))
        /\ ENABLED (WaitExit(<<"CtrlC">>) \/ StreamExit(<<"CtrlC">>))

ActivePhases == {"S0", "S1", "S2", "S3"}

\* C27 as claimed: every iteration of a request loop that goes round (a tick)
\* moves the slot's indicator to the next phase of S0, S1, S2, S3, S0, never
\* to idle; when send_request has returned Finished, Cancel or Exit both
\* indicators are idle, and so they are whenever the mainloop reads a key
C27_IndicatorAdvancesPerTick ==
    [][/\ \A k \in PollKeys :
             ((WaitTick(k) \/ WaitFinished(k) \/ StreamTick(k)) /\ pc' \in RequestPcs) =>
                /\ SlotNext(request_type).request_state \in ActivePhases
                /\ SlotNext(request_type).request_state =
                      next_state(Slot(UI, request_type).request_state)
       /\ exit' \in {"Finished", "Cancel", "Exit"} =>
             /\ main_response'.request_state = "None"
             /\ auxiliary_response'.request_state = "None"
       /\ pc' = "mainloop_read" =>
             /\ main_response'.request_state = "None"
             /\ auxiliary_response'.request_state = "None"
      ]_vars

\* w is the text v after the text edit of key k at cursor c: a character key
\* puts its character in at the cursor, Backspace takes out the character
\* before the cursor, Ctrl-U takes out the line; any other key is no text edit
edit_applied(v, c, k, w) ==
    CASE k[1] = "Char" ->
            /\ Len(w) = Len(v) + 1
            /\ w[c + 1] = k[2]
            /\ \A i \in 1..c : w[i] = v[i]
            /\ \A i \in (c + 1)..Len(v) : w[i + 1] = v[i]
      [] k[1] = "Backspace" ->
            IF c = 0 THEN w = v
            ELSE /\ Len(w) + 1 = Len(v)
                 /\ \A i \in 1..(c - 1) : w[i] = v[i]
                 /\ \A i \in (c + 1)..Len(v) : w[i - 1] = v[i]
      [] k[1] = "CtrlU" -> w = <<>>
      [] OTHER -> w = v

\* C28: in the mainloop without submit, accept and force-exit, starting from
\* any seed text: whatever the field holds, each key's effect on it is that
\* key's text edit and no more; a key that reaches the input field leaves the
\* text shown equal to the field's value, which is the text before with the
\* key's text edit applied; every other step leaves the input unchanged
C28_InputIsEditsApplied ==
    [][/\ \A k \in Keys :
             /\ edit_applied(input.value, input.cursor, k, handle_event(input, k).value)
             /\ handle_event(input, k).cursor \in 0..Len(handle_event(input, k).value)
       /\ \A k \in Keys :
             EditInput(k) =>
                /\ edit_applied(input_text, input.cursor, k, input_text')
                /\ input'.value = input_text'
       /\ (~ \E k \in Keys : EditInput(k)) => UNCHANGED inputVars
      ]_vars

\* C28 witness: keys have left the cursor inside a text of two characters
C28_Witness ==
    /\ pc = "mainloop_read"
    /\ input_text = <<"y", "x">>
    /\ input.value = input_text
    /\ input.cursor = 1

\* where the controller blocks: the mainloop's key read, the key poll of the
\* waiting loop, the next stream item, the key poll of the streaming loop
BlockingPcs == {"mainloop_read", "wait_poll", "stream_next", "stream_poll"}

\* C29 as claimed: whenever the controller blocks on a key read, a key poll or
\* the next stream item, the last draw rendered the layout, the focus and the
\* slots (text, scroll, progress) as they now are: no mutation is left
\* undrawn
C29_RedrawnBeforeBlocking ==
    pc \in BlockingPcs => drawn = UI

\* C30: a request started for the main slot carries the input field's text as
\* the user message, one started for the auxiliary slot the main response's
\* text; its task is GenerateCommand exactly when the mode is Ask and the slot
\* is main, Explain otherwise; message and task stay as they are for as long as
\* the request is outstanding
C30_MessageAndTaskBySlot ==
    [][/\ \A rt \in {"Normal", "Auxiliary"} :
             Starts(rt) =>
                /\ user_prompt' = IF rt = "Normal" THEN input.value ELSE main_response.text
                /\ task_kind' = IF args.task = "Ask" /\ rt = "Normal"
                                THEN "GenerateCommand" ELSE "Explain"
                /\ input' = input
                /\ main_response'.text = main_response.text
       /\ (pc \in RequestPcs /\ pc' \in RequestPcs) =>
             /\ user_prompt' = user_prompt
             /\ task_kind' = task_kind
      ]_vars

\* C30 witness: in shai ask a request for the main slot is outstanding with
\* the typed text as its message and command generation as its task
C30_Witness ==
    /\ args.task = "Ask"
    /\ pc = "wait_poll"
    /\ request_type = "Normal"
    /\ user_prompt = <<"x">>
    /\ task_kind = "GenerateCommand"

\* C31: in every reachable state, focus on the auxiliary pane implies the
\* layout shows both panes; a non-empty auxiliary text implies the layout
\* shows both panes, the main text is non-empty and the task is Ask; in
\* Explain mode the layout shows one response pane, the focus is on the main
\* pane and the auxiliary text is empty
C31_AuxiliaryPaneConsistent ==
    /\ response_focus = "AuxiliaryResponse" => layout = "InputResponseExplanation"
    /\ auxiliary_response.text # <<>> =>
          /\ layout = "InputResponseExplanation"
          /\ main_response.text # <<>>
          /\ args.task = "Ask"
    /\ args.task = "Explain" =>
          /\ layout = "InputResponse"
          /\ response_focus = "MainResponse"
          /\ auxiliary_response.text = <<>>

\* C31 witness: the mainloop reads a key with the explanation of a generated
\* command in the focused auxiliary pane
C31_Witness ==
    /\ pc = "mainloop_read"
    /\ auxiliary_response.text # <<>>
    /\ response_focus = "AuxiliaryResponse"

\* C32: the iteration in which a main-slot request is found accepted leaves
\* both slots with empty text and scroll offset 0, the auxiliary progress
\* idle and the main progress restarted, the layout with one response pane
\* and the focus on the main pane; so it is until the first fragment is
\* appended; and no step of an auxiliary-slot request, its start included,
\* changes the main slot's text or scroll offset
C32_ClearOnAcceptedRequest ==
    [][/\ \A k \in PollKeys :
             (WaitFinished(k) /\ request_type = "Normal") =>
                /\ main_response' = [DefaultResponse EXCEPT !.request_state = next_state("None")]
                /\ auxiliary_response' = DefaultResponse
                /\ layout' = "InputResponse"
                /\ response_focus' = "MainResponse"
       /\ (pc = "stream_next" /\ request_type = "Normal" /\ yielded = <<>>) =>
             /\ main_response.text = <<>> /\ main_response.scroll = 0
             /\ auxiliary_response = DefaultResponse
             /\ layout = "InputResponse"
             /\ response_focus = "MainResponse"
       /\ (Starts("Auxiliary") \/ (pc \in RequestPcs /\ request_type = "Auxiliary")) =>
             /\ main_response'.text = main_response.text
             /\ main_response'.scroll = main_response.scroll
      ]_vars

\* C32 witness: an auxiliary request has streamed a fragment into its slot
\* and the main slot still holds the generated command
C32_Witness ==
    /\ pc = "stream_poll"
    /\ request_type = "Auxiliary"
    /\ auxiliary_response.text = <<"a">>
    /\ main_response.text = <<"FENCE", "NL", "a", "NL", "FENCE">>

\* C33 as claimed: a partial text left in the main slot by Esc while a
\* main-slot request streams can not be accepted: when the mainloop goes on
\* after that cancel, the derived state is none in which Ctrl-A or Ctrl-R end
\* the session with a write
C33_CancelledTextNotAccepted ==
    [][\A k \in PollKeys :
          (StreamCancel(k) /\ request_type = "Normal" /\ pc' = "mainloop_read") =>
             state' \notin AcceptStates
      ]_vars

\* C34 as claimed: when the mainloop ended with an error, run() returns an
\* error and echoes nothing to standard output, whatever the task and whether
\* or not an edit file is configured
C34_MainloopErrorReturned ==
    [][(Run /\ write_mode = "Err") =>
          /\ returned' = "Err"
          /\ stdout' = stdout
      ]_vars

\* C35 as claimed: no key makes the u16 arithmetic of the mainloop overflow.
\* A resize key never panics and leaves the size the exact result of the
\* arm (one more for Shift-Down); a scroll key finds the focused offset plus
\* half a page within u16
C35_NoU16Overflow ==
    [][/\ \A k \in {<<"ShiftUp">>, <<"ShiftDown">>} :
             ResizeArm(k) =>
                /\ pc' # "panicked"
                /\ main_response_size' = resize(main_response_size, k)
       /\ \A k \in {<<"CtrlD">>, <<"CtrlU">>} :
             Scroll(k) =>
                LET r == IF response_focus = "MainResponse"
                         THEN main_response ELSE auxiliary_response
                    page == line_count(r.text)
                IN  r.scroll + Max(page \div 2, 1) <= U16Max
      ]_vars

====
